---- MODULE Spec2Model ----
(***************************************************************************)
(* Parallel API dashboard (src/app.py): three HTTP sources are fetched on  *)
(* a thread pool through a TTL cache, each fetch sleeps a simulated        *)
(* latency, and the main thread transforms and renders every result as    *)
(* as_completed yields it.                                                 *)
(*                                                                         *)
(* Time is a discrete clock `now`; it advances in steps of TickStep.       *)
(* JSON values are tagged records [t, v]; a JSON object is the sequence of *)
(* its <<key, value>> pairs in document order (Python dicts keep insertion *)
(* order).  A Python call that may raise is a record [raised, val, msg].   *)
(***************************************************************************)
EXTENDS Integers, Sequences, FiniteSets, TLC

(* ------------------------------ bounds -------------------------------- *)
\* script runs (Streamlit reruns main() on every interaction)
MaxRuns == 2
\* clock ticks per run that pass with every fetch waiting on the network
MaxTicks == 0
\* longest measured processing time, in units below the clock's resolution
MaxProcess == 0

(* --------------------------- JSON values ------------------------------ *)
JNum(n) == [t |-> "num", v |-> n]
JStr(s) == [t |-> "str", v |-> s]
JArr(s) == [t |-> "arr", v |-> s]
JObj(pairs) == [t |-> "obj", v |-> pairs]

\* Python None; JSON null parses to it
None == [t |-> "None", v |-> <<>>]
JNull == None

Ok(x) == [raised |-> FALSE, val |-> x, msg |-> ""]
Raise(m) == [raised |-> TRUE, val |-> None, msg |-> m]

\* d[k] on a parsed JSON value: KeyError on a dict without k, TypeError on
\* anything that is not a dict (None, list with a str index, number, str)
GetItem(d, k) ==
    IF d.t = "obj"
    THEN IF \E i \in 1..Len(d.v) : d.v[i][1] = k
         THEN Ok(d.v[CHOOSE i \in 1..Len(d.v) : d.v[i][1] = k][2])
         ELSE Raise("KeyError")
    ELSE Raise("TypeError")

\* d.get(k, {}) : AttributeError when d has no .get (it is not a dict)
GetOrEmpty(d, k) ==
    IF d.t = "obj"
    THEN IF GetItem(d, k).raised THEN Ok(JObj(<<>>)) ELSE GetItem(d, k)
    ELSE Raise("AttributeError")

\* float(x): numbers pass, numeric strings parse (prices in hundredths),
\* any other string is a ValueError, any other type a TypeError
NumericStrings == {"150.25", "151.00"}
ParseFloat(s) == IF s = "150.25" THEN 15025 ELSE 15100
ToFloat(x) ==
    IF x.t = "num" THEN Ok(x.v)
    ELSE IF x.t = "str"
         THEN IF x.v \in NumericStrings THEN Ok(ParseFloat(x.v))
              ELSE Raise("ValueError")
         ELSE Raise("TypeError")

(* ------------------------- source registry ---------------------------- *)
Latency == 5
APIS == <<
    [name |-> "Weather API", processor |-> "weather", latency |-> Latency],
    [name |-> "Crypto Prices", processor |-> "crypto", latency |-> Latency],
    [name |-> "Stock Market", processor |-> "stocks", latency |-> Latency] >>
Idx == 1..Len(APIS)
ApiSet == {APIS[i] : i \in Idx}

TTL == 60
\* resolution of the clock: the shortest interval the program names
TickStep == Latency

(* ----------------------------- requests ------------------------------- *)
\* What one HTTP GET can come back with.
\*   transport : requests.get itself raises (DNS, refused, reset)
\*   status    : the status line of a response that did arrive
\*   is_json   : whether response.json() can parse the body
\*   body      : the parsed body when is_json
Response(transport, status, is_json, body) ==
    [transport |-> transport, status |-> status, is_json |-> is_json, body |-> body]

\* response.raise_for_status(): HTTPError for 4xx and 5xx
raise_for_status(resp) ==
    IF resp.status >= 400 /\ resp.status < 600 THEN Raise("HTTPError") ELSE Ok(None)

\* response.json(): the parsed document, None for the document null
response_json(resp) ==
    IF ~resp.is_json THEN Raise("JSONDecodeError") ELSE Ok(resp.body)

(* ------------------------ fetch_api_data body ------------------------- *)
\* The undecorated function: one GET, any exception becomes the error text.
fetch_api_data_body(api, resp) ==
    IF resp.transport
    THEN [api |-> api, data |-> None, error |-> JStr("ConnectionError")]
    ELSE IF raise_for_status(resp).raised
         THEN [api |-> api, data |-> None, error |-> JStr(raise_for_status(resp).msg)]
         ELSE IF response_json(resp).raised
              THEN [api |-> api, data |-> None, error |-> JStr(response_json(resp).msg)]
              ELSE [api |-> api, data |-> response_json(resp).val, error |-> None]

\* Python truthiness of result["error"]: None and "" are false
Truthy(e) == e.t = "str" /\ e.v # ""

(* --------------------------- process_data ----------------------------- *)
Fig(kind, title, series) ==
    [t |-> "fig", v |-> [kind |-> kind, title |-> title, series |-> series]]

IsScalar(x) == x.t \in {"num", "str", "None"}

\* pd.DataFrame({"time": a, "temperature": b}) for lists and scalars: two
\* lists must have one length, a scalar is broadcast along a list, two
\* scalars have no index.  Rows are <<time, temperature>>.
FrameOfColumns(a, b) ==
    IF a.t = "arr" /\ b.t = "arr"
    THEN IF Len(a.v) = Len(b.v)
         THEN Ok([i \in 1..Len(a.v) |-> <<a.v[i], b.v[i]>>])
         ELSE Raise("ValueError")
    ELSE IF a.t = "arr" /\ IsScalar(b) THEN Ok([i \in 1..Len(a.v) |-> <<a.v[i], b>>])
    ELSE IF IsScalar(a) /\ b.t = "arr" THEN Ok([i \in 1..Len(b.v) |-> <<a, b.v[i]>>])
    ELSE Raise("ValueError")

\* pd.DataFrame(rows, columns=["timestamp", "price"]): None gives the empty
\* frame, a list must hold rows of exactly two cells, anything else raises
FrameOfRows(p) ==
    IF p.t = "None" THEN Ok(<<>>)
    ELSE IF p.t = "arr"
         THEN IF \A i \in 1..Len(p.v) : p.v[i].t = "arr" /\ Len(p.v[i].v) = 2
              THEN Ok([i \in 1..Len(p.v) |-> <<p.v[i].v[1], p.v[i].v[2]>>])
              ELSE Raise("ValueError")
         ELSE Raise("ValueError")

\* pd.to_datetime(col, unit="ms"): a number of milliseconds becomes a
\* timestamp; a cell that is not a number raises
ToDatetime(x) == [t |-> "datetime", v |-> x.v]
DatesOfRows(rows) ==
    IF \A i \in 1..Len(rows) : rows[i][1].t = "num"
    THEN Ok([i \in 1..Len(rows) |-> <<ToDatetime(rows[i][1]), rows[i][2]>>])
    ELSE Raise("ValueError")

ProcessWeather(data) ==
    LET hourly == GetItem(data, "hourly") IN
    IF hourly.raised THEN hourly ELSE
    LET tm == GetItem(hourly.val, "time") IN
    IF tm.raised THEN tm ELSE
    LET temp == GetItem(hourly.val, "temperature_2m") IN
    IF temp.raised THEN temp ELSE
    LET df == FrameOfColumns(tm.val, temp.val) IN
    IF df.raised THEN df
    ELSE Ok(Fig("line", "Hourly Temperature Forecast", df.val))

ProcessCrypto(data) ==
    LET prices == GetItem(data, "prices") IN
    IF prices.raised THEN prices ELSE
    LET df == FrameOfRows(prices.val) IN
    IF df.raised THEN df ELSE
    LET dated == DatesOfRows(df.val) IN
    IF dated.raised THEN dated
    ELSE Ok(Fig("area", "Bitcoin Price (7 Days)", dated.val))

\* the list comprehension over ts.items(), in the payload's key order
StockRow(kv) ==
    LET open == GetItem(kv[2], "1. open") IN
    IF open.raised THEN open ELSE
    LET price == ToFloat(open.val) IN
    IF price.raised THEN price ELSE Ok(<<JStr(kv[1]), JNum(price.val)>>)

ProcessStocks(data) ==
    LET ts == GetOrEmpty(data, "Time Series (5min)") IN
    IF ts.raised THEN ts ELSE
    IF ts.val.t # "obj" THEN Raise("AttributeError") ELSE
    LET items == ts.val.v IN
    IF \E i \in 1..Len(items) : StockRow(items[i]).raised
    THEN StockRow(items[CHOOSE i \in 1..Len(items) :
                          /\ StockRow(items[i]).raised
                          /\ \A j \in 1..(i-1) : ~StockRow(items[j]).raised])
    ELSE IF Len(items) = 0
         \* the frame of no rows has no "time" column: px.line raises
         THEN Raise("ValueError")
         ELSE Ok(Fig("line", "IBM Stock Price (5min intervals)",
                     [i \in 1..Len(items) |-> StockRow(items[i]).val]))

\* the try block: dispatch on the processor tag; an unknown tag leaves fig
\* unbound and the return statement raises
ProcessBody(result) ==
    LET processor == result.api.processor
        data == result.data
    IN  IF processor = "weather" THEN ProcessWeather(data)
        ELSE IF processor = "crypto" THEN ProcessCrypto(data)
        ELSE IF processor = "stocks" THEN ProcessStocks(data)
        ELSE Raise("UnboundLocalError")

\* What process_data hands back: (fig, error, processing time), or the
\* exception that escapes it.
Returned(fig, error, t) == [raised |-> FALSE, fig |-> fig, error |-> error, time |-> t]
Escapes(m) == [raised |-> TRUE, fig |-> None, error |-> JStr(m), time |-> 0]

\* Mutant: the error short-circuit reports the measured time.
process_data_times_errors(result, elapsed) ==
    IF Truthy(result.error) THEN Returned(None, result.error, elapsed)
    ELSE IF ProcessBody(result).raised
         THEN Returned(None, JStr(ProcessBody(result).msg), elapsed)
         ELSE Returned(ProcessBody(result).val, None, elapsed)

\* Mutant: no except clause around the dispatch.
process_data_no_except(result, elapsed) ==
    IF Truthy(result.error) THEN Returned(None, result.error, 0)
    ELSE IF ProcessBody(result).raised
         THEN Escapes(ProcessBody(result).msg)
         ELSE Returned(ProcessBody(result).val, None, elapsed)

\* process_data(result); elapsed is time.time() - start_time at the return
process_data(result, elapsed) ==
    IF Truthy(result.error) THEN Returned(None, result.error, 0)
    ELSE IF ProcessBody(result).raised
         THEN Returned(None, JStr(ProcessBody(result).msg), elapsed)
         ELSE Returned(ProcessBody(result).val, None, elapsed)

(* --------------------- st.cache_data(ttl=60) -------------------------- *)
\* An entry is the pickled return value and the time it was stored.  The
\* key is the hash of the argument, i.e. the descriptor itself.
Entry(value, t) == [value |-> value, written |-> t]

\* Mutant: entries never expire.
CacheValid_no_expiry(entry, t) == TRUE

\* An entry is served while less than ttl seconds old (the TTL store drops
\* it once timer() >= stored + ttl).
CacheValid(entry, t) == t - entry.written < TTL

\* Mutant: the key is taken from a field the sources share.
CacheKey_by_latency(api) == api.latency

\* the value key: the hash of the call's argument, every item of the dict
CacheKey(api) == api

CacheHit(c, api, t) == CacheKey(api) \in DOMAIN c /\ CacheValid(c[CacheKey(api)], t)

\* Mutant: only successful results are memoized.
CacheStore_skips_errors(c, api, value, t) ==
    IF Truthy(value.error) THEN c ELSE (CacheKey(api) :> Entry(value, t)) @@ c

\* Mutant: a write updates the fields of the stored dict that the new
\* result sets and leaves the others as they were.
CacheStore_merges(c, api, value, t) ==
    IF CacheKey(api) \in DOMAIN c
    THEN LET old == c[CacheKey(api)].value IN
         (CacheKey(api) :> Entry([api |-> value.api,
                                  data |-> IF value.data = None THEN old.data ELSE value.data,
                                  error |-> IF value.error = None THEN old.error ELSE value.error],
                                 t)) @@ c
    ELSE (CacheKey(api) :> Entry(value, t)) @@ c

\* A miss stores the return value, error dicts included, replacing the key.
CacheStore(c, api, value, t) == (CacheKey(api) :> Entry(value, t)) @@ c

(* ----------------------- ThreadPoolExecutor() ------------------------- *)
\* the default max_workers is min(32, cpu_count + 4): five on the smallest
\* machine
max_workers == 5

\* Mutant: a pool of one thread.
PoolHasThread_single(busy) == busy < 1

\* a submitted task is taken up at once while fewer than max_workers
\* threads are busy
PoolHasThread(busy) == busy < max_workers

(* ------------------------- time.sleep --------------------------------- *)
\* Mutant: the sleep returns at once.
SleepOver_no_sleep(api, since, t) == TRUE

\* time.sleep(api["latency"]) entered at `since` has returned by time t
SleepOver(api, since, t) == t >= since + api.latency

\* result["api_time"] = time.time() - start_time, evaluated at time t
api_time(start_time, since, t) == t - start_time

(* ------------------------ the network --------------------------------- *)
GoodBody(api) ==
    IF api.processor = "weather"
    THEN JObj(<< <<"hourly", JObj(<<
             <<"time", JArr(<<JStr("00:00"), JStr("01:00")>>)>>,
             <<"temperature_2m", JArr(<<JNum(10), JNum(12)>>)>> >>)>> >>)
    ELSE IF api.processor = "crypto"
    THEN JObj(<< <<"prices", JArr(<< JArr(<<JNum(1000), JNum(35000)>>) >>)>> >>)
    ELSE JObj(<< <<"Time Series (5min)", JObj(<<
             <<"2024-01-01 09:30:00", JObj(<< <<"1. open", JStr("150.25")>> >>)>> >>)>> >>)

\* the answers the model lets a GET for `api` come back with
Responses(api) ==
    { Response(FALSE, 500, FALSE, None),       \* server error
      Response(FALSE, 200, TRUE, JNull),       \* 200, body is the document null
      Response(FALSE, 200, TRUE, GoodBody(api)) }

\* seconds between the end of one script run and the next rerun: at once,
\* or so late that an entry stored one latency before the run ended is
\* still fresh while one stored two latencies before it has expired
RerunGaps == {0, TTL - Latency - (Latency \div 2)}

\* what time.time() - start_time can come to inside process_data: the call
\* is far shorter than a tick, so the clock of the model does not move
ProcessTimes == 0..MaxProcess

(* ----------------------------- state ---------------------------------- *)
VARIABLES
    now,          \* time.time()
    ticks,        \* clock ticks since this run's submit
    run,          \* number of the script run
    cache,        \* st.cache_data store of fetch_api_data: descriptor -> Entry
    net_calls,    \* requests.get calls issued so far, per source index
    last_net,     \* descriptor -> [value, at]: what its latest GET led to, and when
    last_return,  \* descriptor -> time its latest fetch_with_latency returned
    wpc,          \* worker i: "idle", "queued", "get", "sleep", "done"
    wapi,         \* worker i: the descriptor its task was submitted with
    wstart,       \* worker i: start_time
    wseen,        \* worker i: the cache entries its lookup found ({} or {e})
    wlast,        \* worker i: last_net of its descriptor at its start ({} or {p})
    wprev,        \* worker i: last_return of its descriptor at its start ({} or {t})
    wcalls,       \* worker i: net_calls[i] at its start
    wresult,      \* worker i: the dict fetch_api_data returned (partial)
    wsince,       \* worker i: when it entered time.sleep
    futures,      \* finished futures: index -> result of fetch_with_latency
    completed,    \* indices in the order their futures finished
    mpc,          \* main thread: "submit", "enter", "loop", "render", "done", "crashed"
    nsub,         \* futures submitted so far
    as_finished,  \* as_completed: futures found finished on entry
    as_pending,   \* as_completed: futures not yet yielded by the waiter
    as_waiter,    \* as_completed: waiter.finished_futures, oldest first
    cur,          \* idx of the future the loop body is working on
    status_bars,  \* status_bars[idx]: the "Initializing" element
    placeholders, \* placeholders[idx]/cols[idx]: what the slot shows
    rendered,     \* indices in the order their slot was filled
    transformed,  \* indices process_data was called for
    fn_in,        \* function-level run: the call's arguments ({} or {x})
    fn_out        \* function-level run: what the call returned ({} or {y})

wvars == <<wpc, wapi, wstart, wseen, wlast, wprev, wcalls, wresult, wsince>>
asvars == <<as_finished, as_pending, as_waiter>>
uivars == <<status_bars, placeholders, rendered, transformed>>
fnvars == <<fn_in, fn_out>>
vars == <<now, ticks, run, cache, net_calls, last_net, last_return, wvars, futures,
          completed, mpc, nsub, asvars, cur, uivars, fnvars>>

\* an element on the page
Subheader(text) == [kind |-> "subheader", text |-> text]
Caption(text) == [kind |-> "caption", text |-> text]

\* col.empty() is a single-element container: an element written to it
\* (also through `with bar:`) replaces the element it holds
EmptyWrite(held, element) == <<element>>

\* status_bars[idx] after lines 124-127
Pending(idx) ==
    EmptyWrite(EmptyWrite(<<>>, Subheader(APIS[idx].name)), Caption("Initializing..."))
\* status_bars[idx] after .empty()
Cleared == <<>>

\* a worker that has no task
NoApi == [name |-> "", processor |-> "", latency |-> 0]

\* a slot: subheader, st.error text, chart, st.metric calls in order
NoError == [kind |-> "", msg |-> ""]
EmptySlot == [subheader |-> "", error |-> NoError, chart |-> None, metrics |-> <<>>]

\* the part of the state a script run starts from
RunInit ==
    /\ ticks = 0
    /\ wpc = [i \in Idx |-> "idle"]
    /\ wapi = [i \in Idx |-> NoApi]
    /\ wstart = [i \in Idx |-> 0]
    /\ wseen = [i \in Idx |-> {}]
    /\ wlast = [i \in Idx |-> {}]
    /\ wprev = [i \in Idx |-> {}]
    /\ wcalls = [i \in Idx |-> 0]
    /\ wresult = <<>>
    /\ wsince = [i \in Idx |-> 0]
    /\ futures = <<>>
    /\ completed = <<>>
    /\ mpc = "submit"
    /\ nsub = 0
    /\ as_finished = {}
    /\ as_pending = {}
    /\ as_waiter = <<>>
    /\ cur = 0
    /\ status_bars = [i \in Idx |-> Pending(i)]
    /\ placeholders = [i \in Idx |-> EmptySlot]
    /\ rendered = <<>>
    /\ transformed = {}

\* the process as the server starts it: empty cache, first script run
ProcessInit ==
    /\ now = 0
    /\ run = 1
    /\ cache = <<>>
    /\ net_calls = [i \in Idx |-> 0]
    /\ last_net = <<>>
    /\ last_return = <<>>
    /\ RunInit

Init ==
    /\ ProcessInit
    /\ fn_in = {}
    /\ fn_out = {}

(* ------------------- worker threads: fetch_with_latency --------------- *)
\* lines 70-71: start_time is taken and fetch_api_data is entered; the
\* cache_data wrapper answers from the store or lets the GET go out
W_Start(i) ==
    LET api == wapi[i] IN
    /\ wpc[i] = "queued"
    /\ PoolHasThread(Cardinality({j \in Idx : wpc[j] \in {"get", "sleep"}}))
    /\ wstart' = [wstart EXCEPT ![i] = now]
    /\ wseen' = [wseen EXCEPT ![i] =
                    IF CacheKey(api) \in DOMAIN cache THEN {cache[CacheKey(api)]} ELSE {}]
    /\ wlast' = [wlast EXCEPT ![i] =
                    IF api \in DOMAIN last_net THEN {last_net[api]} ELSE {}]
    /\ wprev' = [wprev EXCEPT ![i] =
                    IF api \in DOMAIN last_return THEN {last_return[api]} ELSE {}]
    /\ wcalls' = [wcalls EXCEPT ![i] = net_calls[i]]
    /\ IF CacheHit(cache, api, now)
       THEN /\ wresult' = (i :> cache[CacheKey(api)].value) @@ wresult
            /\ wsince' = [wsince EXCEPT ![i] = now]
            /\ wpc' = [wpc EXCEPT ![i] = "sleep"]
            /\ UNCHANGED net_calls
       ELSE /\ net_calls' = [net_calls EXCEPT ![i] = @ + 1]
            /\ wpc' = [wpc EXCEPT ![i] = "get"]
            /\ UNCHANGED <<wresult, wsince>>
    /\ UNCHANGED <<now, ticks, run, cache, last_net, last_return, wapi, futures,
                   completed, mpc, nsub, asvars, cur, uivars, fnvars>>

\* lines 53-66: the GET comes back, the body runs, the wrapper stores the
\* returned dict; line 74: the thread enters time.sleep
W_Response(i) ==
    LET api == wapi[i] IN
    /\ wpc[i] = "get"
    /\ \E resp \in Responses(api) :
         LET r == fetch_api_data_body(api, resp) IN
         /\ wresult' = (i :> r) @@ wresult
         /\ cache' = CacheStore(cache, api, r, now)
         /\ last_net' = (api :> [value |-> r, at |-> now]) @@ last_net
    /\ wsince' = [wsince EXCEPT ![i] = now]
    /\ wpc' = [wpc EXCEPT ![i] = "sleep"]
    /\ UNCHANGED <<now, ticks, run, net_calls, last_return, wapi, wstart, wseen, wlast,
                   wprev, wcalls, futures, completed, mpc, nsub, asvars, cur, uivars, fnvars>>

\* lines 74-78: the sleep is over, api_time is set, the function returns;
\* the future is marked finished and put on the installed waiter's list
W_Wake(i) ==
    LET api == wapi[i]
        result == [api |-> wresult[i].api, data |-> wresult[i].data,
                   error |-> wresult[i].error,
                   api_time |-> api_time(wstart[i], wsince[i], now)]
    IN
    /\ wpc[i] = "sleep"
    /\ SleepOver(api, wsince[i], now)
    /\ futures' = (i :> result) @@ futures
    /\ completed' = Append(completed, i)
    /\ last_return' = (api :> now) @@ last_return
    /\ as_waiter' = IF mpc \in {"loop", "render"} THEN Append(as_waiter, i) ELSE as_waiter
    /\ wpc' = [wpc EXCEPT ![i] = "done"]
    \* the frame of the call is gone
    /\ wstart' = [wstart EXCEPT ![i] = 0]
    /\ wsince' = [wsince EXCEPT ![i] = 0]
    /\ wseen' = [wseen EXCEPT ![i] = {}]
    /\ wlast' = [wlast EXCEPT ![i] = {}]
    /\ wprev' = [wprev EXCEPT ![i] = {}]
    /\ wcalls' = [wcalls EXCEPT ![i] = 0]
    /\ wresult' = [j \in DOMAIN wresult \ {i} |-> wresult[j]]
    /\ UNCHANGED <<now, ticks, run, cache, net_calls, last_net, wapi, mpc, nsub,
                   as_finished, as_pending, cur, uivars, fnvars>>

\* a worker thread that can take its next step without waiting for the
\* network or for its sleep to end
Runnable(i) ==
    \/ wpc[i] = "queued"
    \/ wpc[i] = "sleep" /\ SleepOver(wapi[i], wsince[i], now)

\* the clock.  A runnable worker runs before the next tick (TickStep is
\* seconds, far above any scheduling delay of the pool); how long a GET
\* takes is free, up to MaxTicks ticks per run spent waiting on the
\* network; the time a sleeping thread still has to wait always passes.
Tick ==
    /\ \A i \in Idx : ~Runnable(i)
    /\ \/ ticks < MaxTicks /\ \E i \in Idx : wpc[i] = "get"
       \/ \E i \in Idx : wpc[i] = "sleep"
    /\ now' = now + TickStep
    /\ ticks' = IF \E i \in Idx : wpc[i] = "sleep" THEN ticks ELSE ticks + 1
    /\ UNCHANGED <<run, cache, net_calls, last_net, last_return, wvars, futures, completed,
                   mpc, nsub, asvars, cur, uivars, fnvars>>

(* ------------------------- main thread -------------------------------- *)
\* lines 131-132: executor.submit(fetch_with_latency, api), one per source;
\* the default pool has more threads than sources, so the task is taken up
\* without waiting for another task
Submit ==
    /\ mpc = "submit"
    /\ nsub < Len(APIS)
    /\ nsub' = nsub + 1
    /\ wpc' = [wpc EXCEPT ![nsub + 1] = "queued"]
    /\ wapi' = [wapi EXCEPT ![nsub + 1] = APIS[nsub + 1]]
    /\ mpc' = IF nsub + 1 = Len(APIS) THEN "enter" ELSE "submit"
    /\ UNCHANGED <<now, ticks, run, cache, net_calls, last_net, last_return, wstart,
                   wseen, wlast, wprev, wcalls, wresult, wsince, futures, completed,
                   asvars, cur, uivars, fnvars>>

\* line 134, as_completed(futures) up to its first yield: the futures that
\* are finished already are collected into a set, the waiter is installed
AsCompletedEnter ==
    /\ mpc = "enter"
    /\ as_finished' = DOMAIN futures
    /\ as_pending' = Idx \ DOMAIN futures
    /\ as_waiter' = <<>>
    /\ mpc' = "loop"
    /\ UNCHANGED <<now, ticks, run, cache, net_calls, last_net, last_return, wvars, futures,
                   completed, nsub, cur, uivars, fnvars>>

\* the future as_completed yields next: first the set found finished on
\* entry, in the set's iteration order, then the waiter's list, oldest first
Yields(idx) ==
    IF as_finished # {} THEN idx \in as_finished
    ELSE as_waiter # <<>> /\ idx = Head(as_waiter)

\* Mutant: the slot is the position of the future in the completion order.
SlotIndex_by_position(f, position) == position

\* line 135, idx = futures[future]: the dict maps the future submitted for
\* APIS[idx] to idx; `position` counts the futures yielded so far
SlotIndex(f, position) == f

\* Mutant: the next future is taken while the body still works on the last.
TakeNext_overlapping ==
    /\ mpc \in {"loop", "render"}
    /\ \E f \in Idx :
         /\ Yields(f)
         /\ cur' = f
         /\ status_bars' = [status_bars EXCEPT ![f] = Cleared]
         /\ IF as_finished # {}
            THEN /\ as_finished' = as_finished \ {f}
                 /\ UNCHANGED <<as_pending, as_waiter>>
            ELSE /\ as_waiter' = Tail(as_waiter)
                 /\ as_pending' = as_pending \ {f}
                 /\ UNCHANGED as_finished
    /\ mpc' = "render"
    /\ UNCHANGED <<now, ticks, run, cache, net_calls, last_net, last_return, wvars, futures,
                   completed, nsub, placeholders, rendered, transformed, fnvars>>

\* lines 134-137: next future, idx, result, status_bars[idx].empty()
TakeNext ==
    /\ mpc = "loop"
    /\ \E idx \in Idx :
         /\ Yields(idx)
         /\ cur' = idx
         /\ status_bars' = [status_bars EXCEPT
                               ![SlotIndex(idx, Len(rendered) + 1)] = Cleared]
         /\ IF as_finished # {}
            THEN /\ as_finished' = as_finished \ {idx}
                 /\ UNCHANGED <<as_pending, as_waiter>>
            ELSE /\ as_waiter' = Tail(as_waiter)
                 /\ as_pending' = as_pending \ {idx}
                 /\ UNCHANGED as_finished
    /\ mpc' = "render"
    /\ UNCHANGED <<now, ticks, run, cache, net_calls, last_net, last_return, wvars, futures,
                   completed, nsub, placeholders, rendered, transformed, fnvars>>

\* Mutant: the failed slot also gets the processing-time metric.
ErrorSlot_with_processing_time(result) ==
    [subheader |-> result.api.name,
     error |-> [kind |-> "API Error", msg |-> result.error.v],
     chart |-> None,
     metrics |-> << <<"API Time", result.api_time>>, <<"Processing Time", 0>> >>]

\* what lines 142-147 put into the slot of a failed fetch
ErrorSlot(result) ==
    [subheader |-> result.api.name,
     error |-> [kind |-> "API Error", msg |-> result.error.v],
     chart |-> None,
     metrics |-> << <<"API Time", result.api_time>> >>]

\* Mutant: the chart is drawn although processing failed, and the metrics
\* are left out.
ProcessedSlot_chart_always(result, out) ==
    [subheader |-> result.api.name,
     error |-> IF Truthy(out.error)
               THEN [kind |-> "Processing Error", msg |-> out.error.v] ELSE NoError,
     chart |-> Fig("line", "", <<>>),
     metrics |-> << <<"API Time (incl. latency)", result.api_time>> >>]

\* what lines 142 and 150-161 put into the slot of a processed result
ProcessedSlot(result, out) ==
    [subheader |-> result.api.name,
     error |-> IF Truthy(out.error)
               THEN [kind |-> "Processing Error", msg |-> out.error.v] ELSE NoError,
     chart |-> IF Truthy(out.error) THEN None ELSE out.fig,
     metrics |-> << <<"API Time (incl. latency)", result.api_time>>,
                    <<"Processing Time", out.time>> >>]

\* lines 139-161: the loop body for the future taken; an exception leaving
\* process_data would leave main()
Render ==
    /\ mpc = "render"
    /\ LET result == futures[cur]
           idx == SlotIndex(cur, Len(rendered) + 1)
       IN
       IF Truthy(result.error)
       THEN /\ placeholders' = [placeholders EXCEPT ![idx] = ErrorSlot(result)]
            /\ rendered' = Append(rendered, idx)
            /\ mpc' = "loop"
            /\ UNCHANGED <<now, ticks, transformed>>
       ELSE \E d \in ProcessTimes :
            LET out == process_data(result, d) IN
            /\ transformed' = transformed \cup {cur}
            /\ UNCHANGED <<now, ticks>>
            /\ IF out.raised
               THEN /\ mpc' = "crashed"
                    /\ placeholders' = [placeholders EXCEPT ![idx] =
                                           [EmptySlot EXCEPT !.subheader = result.api.name]]
                    /\ UNCHANGED rendered
               ELSE /\ mpc' = "loop"
                    /\ placeholders' = [placeholders EXCEPT ![idx] = ProcessedSlot(result, out)]
                    /\ rendered' = Append(rendered, idx)
    /\ cur' = 0
    /\ UNCHANGED <<run, cache, net_calls, last_net, last_return, wvars, futures, completed,
                   nsub, asvars, status_bars, fnvars>>

\* Mutant: the loop is left once the futures found finished on entry are
\* rendered, and the pool is not waited for.
LoopExit_without_waiting ==
    /\ mpc = "loop"
    /\ as_finished = {} /\ as_waiter = <<>>
    /\ mpc' = "done"
    /\ UNCHANGED <<now, ticks, run, cache, net_calls, last_net, last_return, wvars, futures,
                   completed, nsub, asvars, cur, uivars, fnvars>>

\* the for loop ends when as_completed has yielded every future; leaving the
\* with block waits for the pool (executor.shutdown(wait=True))
LoopExit ==
    /\ mpc = "loop"
    /\ as_finished = {} /\ as_waiter = <<>> /\ as_pending = {}
    /\ \A i \in Idx : wpc[i] = "done"
    /\ mpc' = "done"
    /\ UNCHANGED <<now, ticks, run, cache, net_calls, last_net, last_return, wvars, futures,
                   completed, nsub, asvars, cur, uivars, fnvars>>

\* Streamlit runs the script again (a user interaction) `gap` seconds after
\* the last run ended; the cache outlives the run, everything else is rebuilt
Rerun ==
    /\ mpc = "done"
    /\ run < MaxRuns
    /\ \E gap \in RerunGaps : now' = now + gap
    /\ run' = run + 1
    /\ ticks' = 0
    /\ wpc' = [i \in Idx |-> "idle"]
    /\ wapi' = [i \in Idx |-> NoApi]
    /\ wstart' = [i \in Idx |-> 0]
    /\ wseen' = [i \in Idx |-> {}]
    /\ wlast' = [i \in Idx |-> {}]
    /\ wprev' = [i \in Idx |-> {}]
    /\ wcalls' = [i \in Idx |-> 0]
    /\ wresult' = <<>>
    /\ wsince' = [i \in Idx |-> 0]
    /\ futures' = <<>>
    /\ completed' = <<>>
    /\ mpc' = "submit"
    /\ nsub' = 0
    /\ as_finished' = {}
    /\ as_pending' = {}
    /\ as_waiter' = <<>>
    /\ cur' = 0
    /\ status_bars' = [i \in Idx |-> Pending(i)]
    /\ placeholders' = [i \in Idx |-> EmptySlot]
    /\ rendered' = <<>>
    /\ transformed' = {}
    /\ UNCHANGED <<cache, net_calls, last_net, last_return, fnvars>>

Next ==
    \/ \E i \in Idx : W_Start(i)
    \/ \E i \in Idx : W_Response(i)
    \/ \E i \in Idx : W_Wake(i)
    \/ Tick
    \/ Submit
    \/ AsCompletedEnter
    \/ TakeNext
    \/ Render
    \/ LoopExit

\* one script run
Spec == Init /\ [][Next]_vars

NextRerun ==
    \/ Next
    \/ Rerun

\* the server process over several script runs
RerunSpec == Init /\ [][NextRerun]_vars

\* a script run under scheduling: while some thread can take a step, a step
\* is taken (threads get scheduled, the clock advances, every GET comes back
\* with a response or an exception)
FairSpec == Spec /\ WF_vars(Next)

(* ------------------- fetches of concurrent sessions ------------------- *)
\* Every browser session runs the script on a thread of its own, with a
\* pool of its own, against the one process-wide cache.  A pool thread of
\* some session is handed fetch_with_latency(api) (lines 131-132) for any
\* of the sources; the threads then run the same function as above.  The
\* cache is modelled without the per-key compute lock that later releases
\* of the decorator add: the lock only removes duplicate GETs.
Call(i, api) ==
    /\ wpc[i] = "idle"
    /\ wpc' = [wpc EXCEPT ![i] = "queued"]
    /\ wapi' = [wapi EXCEPT ![i] = api]
    /\ UNCHANGED <<now, ticks, run, cache, net_calls, last_net, last_return, wstart,
                   wseen, wlast, wprev, wcalls, wresult, wsince, futures, completed,
                   mpc, nsub, asvars, cur, uivars, fnvars>>

NextSessions ==
    \/ \E i \in Idx : \E api \in ApiSet : Call(i, api)
    \/ \E i \in Idx : W_Start(i)
    \/ \E i \in Idx : W_Response(i)
    \/ \E i \in Idx : W_Wake(i)
    \/ Tick

SessionsSpec == Init /\ [][NextSessions]_vars

(* ------------------ process_data as a function ------------------------ *)
\* a descriptor whose processor tag is none of the three
OtherApi == [name |-> "Other", processor |-> "other", latency |-> Latency]

\* every answer of the four kinds a GET can have
AllResponses(api) ==
    { Response(TRUE, 0, FALSE, None),          \* transport failure
      Response(FALSE, 500, FALSE, None),       \* server error
      Response(FALSE, 404, FALSE, None),       \* client error
      Response(FALSE, 200, FALSE, None),       \* 200, body is not JSON
      Response(FALSE, 200, TRUE, JNull),       \* 200, body is the document null
      Response(FALSE, 200, TRUE, JObj(<<>>)),  \* 200, body is {}
      Response(FALSE, 200, TRUE, GoodBody(api)) }

\* 200 answers whose document is not of the shape the processor reads
Malformed(api) ==
    IF api.processor = "weather"
    THEN { JObj(<< <<"latitude", JNum(40)>> >>),                  \* no "hourly"
           JObj(<< <<"hourly", JObj(<<
               <<"time", JArr(<<JStr("00:00"), JStr("01:00")>>)>> >>)>> >>),
                                                                 \* no "temperature_2m"
           JObj(<< <<"hourly", JArr(<<JNum(10), JNum(12)>>)>> >>),
                                                                 \* "hourly" is a list
           JObj(<< <<"hourly", JObj(<<
               <<"time", JArr(<<JStr("00:00"), JStr("01:00")>>)>>,
               <<"temperature_2m", JArr(<<JNum(10)>>)>> >>)>> >>),
                                                                 \* lists of two lengths
           JObj(<< <<"hourly", JObj(<<
               <<"time", JArr(<<JStr("00:00"), JStr("01:00")>>)>>,
               <<"temperature_2m", JNum(10)>> >>)>> >>) }         \* a number for the list
    ELSE IF api.processor = "crypto"
    THEN { JObj(<< <<"status", JStr("throttled")>> >>),           \* no "prices"
           JObj(<< <<"prices", JNum(35000)>> >>),                 \* a number for the rows
           JObj(<< <<"prices", JArr(<< JArr(<<JNum(1000)>>) >>)>> >>),
                                                                 \* a row of one cell
           JObj(<< <<"prices", JArr(<< JArr(<<JStr("today"), JNum(35000)>>) >>)>> >>) }
                                                                 \* a timestamp that is text
    ELSE { JObj(<< <<"Note", JStr("rate limit")>> >>),            \* no "Time Series (5min)"
           JObj(<< <<"Time Series (5min)", JArr(<<>>)>> >>),      \* a list for the mapping
           JObj(<< <<"Time Series (5min)", JObj(<<
               <<"2024-01-01 09:30:00", JObj(<< <<"2. high", JStr("151.00")>> >>)>> >>)>> >>),
                                                                 \* no "1. open"
           JObj(<< <<"Time Series (5min)", JObj(<<
               <<"2024-01-01 09:30:00", JObj(<< <<"1. open", JStr("n/a")>> >>)>> >>)>> >>),
                                                                 \* a price that does not parse
           JObj(<< <<"Time Series (5min)", JObj(<<
               <<"2024-01-01 09:30:00", JObj(<< <<"1. open", JNum(15025)>> >>)>> >>)>> >>) }
                                                                 \* a number for the string

\* result dicts handed to process_data: what fetch_api_data returns, and
\* dicts a caller may build with any payload beside any error
ResultDicts ==
    UNION {{fetch_api_data_body(api, resp) : resp \in AllResponses(api)} : api \in ApiSet}
    \cup
    UNION {{fetch_api_data_body(api, Response(FALSE, 200, TRUE, body)) : body \in Malformed(api)}
           : api \in ApiSet}
    \cup
    UNION {[api : {api}, data : {None, JObj(<<>>), GoodBody(api)},
            error : {None, JStr(""), JStr("HTTPError"), JStr("ConnectionError")}]
           : api \in ApiSet \cup {OtherApi}}

FnInit ==
    /\ ProcessInit
    /\ fn_in \in {{[result |-> r, elapsed |-> e]} : r \in ResultDicts, e \in 0..(MaxProcess + 1)}
    /\ fn_out = {}

\* process_data(result) is called and returns after `elapsed`
FnProcess ==
    /\ fn_out = {}
    /\ fn_out' = {process_data(x.result, x.elapsed) : x \in fn_in}
    /\ UNCHANGED <<now, ticks, run, cache, net_calls, last_net, last_return, wvars,
                   futures, completed, mpc, nsub, asvars, cur, uivars, fn_in>>

FnSpec == FnInit /\ [][FnProcess]_vars

(* ============================ properties ============================== *)
IsSet(x) == x.t # "None"
Range(q) == {q[k] : k \in 1..Len(q)}
Before(q, a, b) == \E k, l \in 1..Len(q) : k < l /\ q[k] = a /\ q[l] = b

\* C1: whatever the GET comes back with, the result fetch_with_latency
\* returns has exactly one of error and data set, never both, never neither.
C1_ErrorXorPayload ==
    \A i \in DOMAIN futures : IsSet(futures[i].error) # IsSet(futures[i].data)

\* workers between the entry of fetch_with_latency and its return
InFetch == {i \in Idx : wpc[i] \in {"get", "sleep"}}
\* worker i has issued no GET since it entered fetch_api_data
NoNetworkCall(i) == net_calls[i] = wcalls[i]
ReturnsStored(i, value) ==
    /\ i \in DOMAIN wresult
    /\ wresult[i].data = value.data
    /\ wresult[i].error = value.error

\* C2 as claimed: a fetch that starts within 60 time-units after the
\* previous fetch of its descriptor completed issues no network call and
\* returns what that fetch stored.
C2_HitWithinTTLOfCompletion ==
    \A i \in InFetch : \A t \in wprev[i] : \A p \in wlast[i] :
        wstart[i] - t < TTL => NoNetworkCall(i) /\ ReturnsStored(i, p.value)

\* C2 amended: a fetch that starts less than 60 time-units after the GET of
\* the previous fetch of its descriptor returned (when its result was
\* stored) issues no network call and returns the stored payload or error,
\* whether that fetch succeeded or failed.
C2_HitWithinTTLOfStore ==
    \A i \in InFetch : \A p \in wlast[i] :
        wstart[i] - p.at < TTL => NoNetworkCall(i) /\ ReturnsStored(i, p.value)

\* C2 witness: a second fetch is answered with the error stored by a failed
\* first fetch
C2_Witness ==
    \E i \in InFetch : \E p \in wlast[i] :
        /\ wstart[i] - p.at < TTL
        /\ Truthy(p.value.error)
        /\ NoNetworkCall(i) /\ ReturnsStored(i, p.value)

\* C3: a fetch that finds an entry older than the TTL issues a new GET and
\* returns what that GET led to, never the stale entry.
C3_StaleEntryRefetched ==
    \A i \in InFetch : \A e \in wseen[i] :
        wstart[i] - e.written > TTL =>
            /\ net_calls[i] = wcalls[i] + 1
            /\ wpc[i] = "sleep" =>
                 /\ last_net[APIS[i]].at >= wstart[i]
                 /\ ReturnsStored(i, last_net[APIS[i]].value)

\* C3 witness: a fetch has refetched over an entry older than the TTL
C3_Witness ==
    \E i \in InFetch : \E e \in wseen[i] :
        wstart[i] - e.written > TTL /\ wpc[i] = "sleep"

\* C4: the api_time of every returned result, cache hits and failed fetches
\* included, is at least the descriptor's simulated latency.
C4_ElapsedAtLeastLatency ==
    \A i \in DOMAIN futures : futures[i].api_time >= futures[i].api.latency

\* C4 witness: a fetch answered from the cache with a stored error has
\* returned
C4_Witness ==
    \E i \in DOMAIN futures :
        run > 1 /\ net_calls[i] = 1 /\ Truthy(futures[i].error)

\* C5: slots are rendered in non-decreasing order of the time their fetch
\* completed: a slot rendered earlier never belongs to a fetch that
\* completed later.
C5_RenderedInCompletionOrder ==
    \A a, b \in Range(rendered) :
        Before(rendered, a, b) => last_return[APIS[a]] <= last_return[APIS[b]]

\* the slot a result leads to, from that result alone
SlotOf(result, d) ==
    IF Truthy(result.error) THEN ErrorSlot(result)
    ELSE ProcessedSlot(result, process_data(result, d))

\* C6: no combination of fetch and transform errors crashes the run, and
\* every rendered slot shows what its own source's result determines; a
\* finished run has rendered every slot.
C6_ErrorsContained ==
    /\ mpc # "crashed"
    /\ \A i \in Range(rendered) : \E d \in ProcessTimes : placeholders[i] = SlotOf(futures[i], d)
    /\ mpc = "done" => Range(rendered) = Idx

\* C6 witness: a finished run with a fetch error, a processing error and a
\* chart side by side
C6_Witness ==
    /\ mpc = "done"
    /\ \E i, j, k \in Idx :
         /\ placeholders[i].error.kind = "API Error"
         /\ placeholders[j].error.kind = "Processing Error"
         /\ placeholders[k].chart.t = "fig"

AllResolved ==
    /\ DOMAIN futures = Idx
    /\ \A i \in Idx : wpc[i] = "done" /\ status_bars[i] = Cleared
    /\ Range(rendered) = Idx

C8_FetchErrorSlot ==
    \A i \in Range(rendered) :
        Truthy(futures[i].error) =>
            /\ placeholders[i].error = [kind |-> "API Error", msg |-> futures[i].error.v]
            /\ placeholders[i].metrics = << <<"API Time", futures[i].api_time>> >>
            /\ placeholders[i].chart = None
            /\ i \notin transformed

\* C8 witness: a failed fetch has been rendered
C8_Witness ==
    \E i \in Range(rendered) : Truthy(futures[i].error) /\ status_bars[i] = Cleared

\* what a rendered slot shows besides its metrics
ShowsFetchError(i) == placeholders[i].error.kind = "API Error"
ShowsProcessingError(i) == placeholders[i].error.kind = "Processing Error"
ShowsChart(i) == placeholders[i].chart.t = "fig"
ShowsExactlyOne(i) ==
    Cardinality({k \in {"fetch", "process", "chart"} :
        \/ k = "fetch" /\ ShowsFetchError(i)
        \/ k = "process" /\ ShowsProcessingError(i)
        \/ k = "chart" /\ ShowsChart(i)}) = 1
Labels(i) == [k \in 1..Len(placeholders[i].metrics) |-> placeholders[i].metrics[k][1]]

\* C9 as claimed: every rendered slot shows two metrics, fetch time and
\* processing time, and exactly one of fetch error, processing error, chart.
C9_AlwaysTwoMetrics ==
    \A i \in Range(rendered) :
        /\ Len(placeholders[i].metrics) = 2
        /\ ShowsExactlyOne(i)

\* C9 amended: every rendered slot shows the fetch-time metric first and
\* exactly one of fetch error, processing error, chart; the processing-time
\* metric follows exactly when the fetch did not fail.
C9_MetricsPerOutcome ==
    \A i \in Range(rendered) :
        /\ ShowsExactlyOne(i)
        /\ placeholders[i].metrics[1][2] = futures[i].api_time
        /\ IF Truthy(futures[i].error)
           THEN Labels(i) = <<"API Time">>
           ELSE /\ Labels(i) = <<"API Time (incl. latency)", "Processing Time">>
                /\ placeholders[i].metrics[2][2] \in ProcessTimes

\* C9 witness: a processed slot and a failed slot are both on the page
C9_Witness ==
    \E i, j \in Range(rendered) :
        /\ Len(placeholders[i].metrics) = 2 /\ ShowsProcessingError(i)
        /\ Len(placeholders[j].metrics) = 1 /\ ShowsFetchError(j)

\* C10: for a result with error set, process_data returns (None, that
\* error, 0) whatever the payload, the tag and the time the call took.
C10_ErrorShortCircuit ==
    \A x \in fn_in : \A y \in fn_out :
        Truthy(x.result.error) =>
            /\ ~y.raised
            /\ y.fig = None
            /\ y.error = x.result.error
            /\ y.time = 0

\* C10 witness: the call returned for an error result that carries a
\* well-formed payload and took time
C10_Witness ==
    \E x \in fn_in :
        /\ fn_out # {}
        /\ Truthy(x.result.error)
        /\ x.result.data.t = "obj" /\ Len(x.result.data.v) > 0
        /\ x.elapsed > 0

\* C11: for every tag and every malformed payload for it (a required key
\* missing, a value of the wrong type, a price that does not parse),
\* process_data does not raise, returns no chart and returns the caught
\* message as its error.
C11_MalformedYieldsError ==
    \A x \in fn_in : \A y \in fn_out :
        (x.result.error = None /\ x.result.data \in Malformed(x.result.api)) =>
            /\ ~y.raised
            /\ y.fig = None
            /\ Truthy(y.error)

\* fetch tasks that have started and not yet returned
InFlight == {i \in Idx : wpc[i] \in {"get", "sleep"}}

\* C12: the run submits exactly one fetch task per descriptor, and a task
\* that has been submitted can start whatever the other tasks are doing: it
\* never has to wait for another task to finish.
C12_OneTaskEachNoLimit ==
    /\ Cardinality({i \in Idx : wpc[i] # "idle"}) = nsub
    /\ \A i \in Idx : wpc[i] # "idle" => wapi[i] = APIS[i]
    /\ mpc # "submit" => nsub = Len(APIS)
    /\ \A i \in Idx : wpc[i] = "queued" => ENABLED W_Start(i)

\* C12 witness: all the fetch tasks are in flight at the same time
C12_Witness ==
    /\ InFlight = Idx
    /\ Cardinality(InFlight) = Len(APIS)

\* slots whose future as_completed has handed to the loop body
Delivered == Range(rendered) \cup (IF cur \in Idx THEN {cur} ELSE {})
\* the status element of slot i shows element el
StatusShows(i, el) == \E k \in 1..Len(status_bars[i]) : status_bars[i][k] = el

\* C13: a slot whose own result has not been delivered shows its
\* descriptor's name and the pending indicator, whichever other fetches
\* have completed or been rendered.
C13_PendingUntilDelivered ==
    \A i \in Idx \ Delivered :
        /\ StatusShows(i, Subheader(APIS[i].name))
        /\ StatusShows(i, Caption("Initializing..."))

\* C14: worker threads touch nothing on the page, and the main thread works
\* on one slot at a time: a slot taken from as_completed and not yet
\* rendered is the one the loop body holds, process_data has been called
\* only for slots rendered or held, and a future is taken only when the body
\* holds none.
C14_MainThreadSerialized ==
    /\ (mpc = "render") = (cur \in Idx)
    /\ {i \in Idx : status_bars[i] = Cleared} \ Range(rendered) =
           (IF cur \in Idx THEN {cur} ELSE {})
    /\ transformed \subseteq Range(rendered)
    /\ \A i \in InFlight : status_bars[i] # Cleared /\ placeholders[i] = EmptySlot

\* C14 witness: the body holds one result while another completed fetch
\* waits to be taken
C14_Witness ==
    /\ mpc = "render"
    /\ \E j \in DOMAIN futures : j # cur /\ status_bars[j] # Cleared
    /\ Len(rendered) > 0

\* C15: with fetches of one descriptor running side by side, each free to
\* issue its own GET, every cache entry is one whole result of one GET for
\* its descriptor (payload and error of the same call): the latest one.
C15_CacheEntriesWhole ==
    \A k \in DOMAIN cache :
        \E api \in ApiSet :
            /\ CacheKey(api) = k
            /\ \E resp \in Responses(api) : cache[k].value = fetch_api_data_body(api, resp)
            /\ api \in DOMAIN last_net
            /\ cache[k] = Entry(last_net[api].value, last_net[api].at)

\* C15 witness: two fetches of one descriptor both missed, both issued a
\* GET, got different answers and both stored theirs
C15_Witness ==
    \E i, j \in Idx :
        /\ i # j /\ wapi[i] = wapi[j]
        /\ wpc[i] = "sleep" /\ wpc[j] = "sleep"
        /\ wseen[i] = {} /\ wseen[j] = {}
        /\ net_calls[i] = 1 /\ net_calls[j] = 1
        /\ wresult[i] # wresult[j]
        /\ cache[CacheKey(wapi[i])].value \in {wresult[i], wresult[j]}

NoDuplicates(q) == Cardinality(Range(q)) = Len(q)

\* C16: within a run no slot is filled twice, a filled slot idx shows the
\* result of the task submitted for APIS[idx], a slot not yet filled is
\* empty, and a finished run has filled every slot.
C16_EachSlotOnceOwnResult ==
    /\ NoDuplicates(rendered)
    /\ \A i \in Range(rendered) :
          /\ i \in DOMAIN futures
          /\ wapi[i] = APIS[i] /\ futures[i].api = APIS[i]
          /\ placeholders[i].subheader = APIS[i].name
          /\ \E d \in ProcessTimes : placeholders[i] = SlotOf(futures[i], d)
    /\ \A i \in Idx \ Range(rendered) : placeholders[i] = EmptySlot
    /\ mpc = "done" => Range(rendered) = Idx

\* C16 witness: a finished run whose slots were filled in an order other
\* than the order of submission
C16_Witness ==
    /\ mpc = "done"
    /\ Len(rendered) = Len(APIS)
    /\ rendered[1] = Len(APIS)
    /\ completed # rendered

\* C17: the dict a fetch gets from fetch_api_data, from the cache or from
\* its own GET, carries the descriptor the fetch was called with, and so
\* does the result it returns; every entry sits under the key of the
\* descriptor it carries.
C17_KeyedByDescriptor ==
    /\ \A i \in DOMAIN wresult : wresult[i].api = wapi[i]
    /\ \A i \in DOMAIN futures : futures[i].api = wapi[i]
    /\ \A k \in DOMAIN cache : CacheKey(cache[k].value.api) = k

\* C17 witness: a fetch was answered from the cache while the cache also
\* held the entry of another source
C17_Witness ==
    \E i \in DOMAIN futures :
        /\ net_calls[i] = 0
        /\ \E k \in DOMAIN cache : k # CacheKey(wapi[i])

====
